---- MODULE Spec2Model ----
(***************************************************************************)
(* mantis-mcp: the incremental sync engine (syncIndex), the chunk builder  *)
(* (buildChunks) and the vector store (VectorStore) it writes to, together *)
(* with the remote MantisBT instance the sync reads from.                  *)
(*                                                                         *)
(* One action is one run of the JavaScript event loop between two awaits:  *)
(* everything syncIndex does synchronously after a promise settles is part *)
(* of the action that settles it.                                          *)
(***************************************************************************)
EXTENDS Integers, Sequences, FiniteSets, TLC

VARIABLES
    remote,     \* the MantisBT instance: issue id -> full issue
    db,         \* the SQLite file: issues, chunks, vec_chunks, sync_metadata
    syncing,    \* server.ts:44, the module-level latch
    sync,       \* the locals of the syncIndex call in flight
    run,        \* history of the current / last accepted syncIndex call
    prev,       \* history of the accepted call before that one
    lastCall,   \* how the latest sync request of the call in flight was answered
    nsyncs,     \* accepted syncIndex calls so far
    nchanges,   \* remote changes so far
    batchSize,  \* config.SYNC_BATCH_SIZE of this process
    pipeline,   \* part_000:13, the module-level embedding pipeline
    searchTool, \* the search tool call in flight and its latest reply
    status,     \* the latest reply of the sync_status tool
    call        \* a direct call of embedBatch, buildChunks or the score formula

vars == <<remote, db, syncing, sync, run, prev, lastCall, nsyncs, nchanges,
          batchSize, pipeline, searchTool, status, call>>

----------------------------------------------------------------------------
(* Bounds                                                                  *)

MaxSyncs == 2
MaxRemoteChanges == 1

\* config.SYNC_BATCH_SIZE: any positive integer may be configured
SYNC_BATCH_SIZE == 1

\* The length of one vector of the configured embedding model (dims of the
\* pipeline output).
OutputDims == 2

\* part_000:16
SUB_BATCH_SIZE == 32

\* The longest list of texts handed to embedBatch directly.
MaxTexts == 65

\* The most notes of an issue handed to buildChunks directly.
MaxNotes == 3

\* The distances handed to the score formula directly are the multiples of
\* 1 / DistScale from 0 to 2.
DistScale == 100

Ids == {1, 2}
Timestamps == {"t1", "t2"}

\* Note texts are sequences of characters.
BlankText == <<" ">>
SomeText == <<"x">>
NoteTextLists == { <<>>, <<BlankText, SomeText>> }

\* The project every issue id is filed under in the remote.
ProjectOfIssue(id) == IF id = 2 THEN 2 ELSE 1

\* params.project_id of sync_index: absent (0) or a positive project id
ProjectIds == {0, 1}

----------------------------------------------------------------------------
(* Helpers                                                                 *)

RECURSIVE SortedSeq(_)
SortedSeq(S) ==
    IF S = {} THEN <<>>
    ELSE LET m == CHOOSE x \in S : \A y \in S : x <= y
         IN  <<m>> \o SortedSeq(S \ {m})

Range(s) == { s[n] : n \in 1..Len(s) }

Min(a, b) == IF a < b THEN a ELSE b

\* Array.prototype.slice(from, to) with 0-based offsets, as a 1-based sequence
Slice(s, from, to) == SubSeq(s, from + 1, Min(to, Len(s)))

\* String.prototype.trim on a character sequence
RECURSIVE TrimLeft(_)
TrimLeft(t) == IF t # <<>> /\ Head(t) = " " THEN TrimLeft(Tail(t)) ELSE t

RECURSIVE TrimRight(_)
TrimRight(t) ==
    IF t # <<>> /\ t[Len(t)] = " " THEN TrimRight(SubSeq(t, 1, Len(t) - 1)) ELSE t

Trim(t) == TrimRight(TrimLeft(t))

----------------------------------------------------------------------------
(* The remote source                                                       *)

\* A full issue as GET /issues/:id returns it (the fields the sync reads).
MantisIssue(id, ts, texts) ==
    [ id         |-> id,
      project    |-> [id |-> ProjectOfIssue(id)],
      updated_at |-> ts,
      summary    |-> "s",
      notes      |-> [n \in 1..Len(texts) |-> [id |-> 10 * id + n, text |-> texts[n]]] ]

\* MantisClient.fetchAllIssueHeaders: the headers of all issues, or of the
\* issues of one project when projectId is truthy, the pages concatenated.
fetchAllIssueHeaders(r, projectId) ==
    LET inScope(id) == projectId = 0 \/ r[id].project.id = projectId
        ids == SortedSeq({ id \in DOMAIN r : inScope(id) })
    IN  [n \in 1..Len(ids) |-> [id |-> ids[n], updated_at |-> r[ids[n]].updated_at]]

----------------------------------------------------------------------------
(* The embedding provider                                                  *)

\* The feature-extraction pipeline on a batch of texts, pooled and
\* normalised: one flat buffer that holds the vectors of the texts one after
\* the other, and the dimensions [texts, length of a vector].  Cell `at` of
\* the vector of a text is one value per distinct text and position.
pipe(batch) ==
    [ data |-> [ c \in 1..(Len(batch) * OutputDims) |->
                   [ of |-> batch[((c - 1) \div OutputDims) + 1],
                     at |-> ((c - 1) % OutputDims) + 1 ] ],
      dims |-> <<Len(batch), OutputDims>> ]

\* embed: the first vector of the flat buffer of pipe([text])
Embed(text) ==
    LET output == pipe(<<text>>)
        vecLen == output.dims[Len(output.dims)]
    IN  Slice(output.data, 0, vecLen)

\* One pass of the loop of embedBatch: the vectors of texts[i .. i+32), each
\* copied out of the flat buffer at offset j * vecLen.
SubBatch_FirstVector(texts, i) ==
    LET batch  == Slice(texts, i, i + SUB_BATCH_SIZE)
        output == pipe(batch)
        vecLen == output.dims[Len(output.dims)]
    IN  [ n \in 1..Len(batch) |-> Slice(output.data, 0, vecLen) ]
SubBatch(texts, i) ==
    LET batch  == Slice(texts, i, i + SUB_BATCH_SIZE)
        output == pipe(batch)
        vecLen == output.dims[Len(output.dims)]
    IN  [ n \in 1..Len(batch) |->
            LET start == (n - 1) * vecLen
            IN  Slice(output.data, start, start + vecLen) ]

RECURSIVE embedBatchFrom(_, _, _)
embedBatchFrom(texts, i, results) ==
    IF i < Len(texts)
    THEN embedBatchFrom(texts, i + SUB_BATCH_SIZE, results \o SubBatch(texts, i))
    ELSE results

embedBatch(texts) ==
    IF Len(texts) = 0 THEN <<>> ELSE embedBatchFrom(texts, 0, <<>>)

\* part_000:13, no pipeline yet; loads counts the createPipeline calls that
\* resolved in this process (history).
NoPipeline == [loaded |-> FALSE, loads |-> 0]

\* part_000:24, `if (pipeline) return pipeline`: whether getPipeline goes on to
\* load the model.
MustLoad(p) == ~p.loaded

\* part_000:30-34, createPipeline resolved and the module variable is assigned.
PipelineAssigned(p) == [loaded |-> TRUE, loads |-> p.loads + 1]

----------------------------------------------------------------------------
(* Chunk builder                                                           *)

NoteBlank_EmptyOnly(note) == note.text = <<>>
NoteBlank(note) == note.text = <<>> \/ Len(Trim(note.text)) = 0

RECURSIVE NoteChunks(_, _)
NoteChunks(issue, notes) ==
    IF notes = <<>> THEN <<>>
    ELSE LET note == Head(notes)
             rest == NoteChunks(issue, Tail(notes))
         IN  IF NoteBlank(note) THEN rest
             ELSE << [ chunk_type |-> "note",
                       note_id    |-> note.id,
                       text       |-> <<"Issue", issue.id, "Note by", note.text>> ] >> \o rest

buildChunks(issue) ==
    << [ chunk_type |-> "issue",
         note_id    |-> 0,
         text       |-> <<"Issue", issue.id, issue.summary>> ] >>
    \o NoteChunks(issue, issue.notes)

----------------------------------------------------------------------------
(* Vector store                                                            *)

EmptyDb ==
    [ issues        |-> << >>,   \* id -> row
      chunks        |-> {},      \* rows of table chunks
      vec_chunks    |-> {},      \* rows of virtual table vec_chunks
      seq           |-> 0,       \* sqlite_sequence of chunks (AUTOINCREMENT)
      sync_metadata |-> << >>,   \* key -> value
      log           |-> {} ]     \* history: <<chunk id, issue id>> of every insertChunk

\* Whether INSERT OR REPLACE, on replacing a row of issues, deletes the chunks
\* that reference it: chunks.issue_id is declared ON DELETE CASCADE and
\* better-sqlite3 opens every database with foreign keys enforced.
ReplaceCascades == TRUE

\* INSERT OR REPLACE INTO issues (the columns the sync reads back are kept).
insertIssue(d, row) ==
    LET replaced == row.id \in DOMAIN d.issues
        kept     == IF replaced /\ ReplaceCascades
                    THEN { c \in d.chunks : c.issue_id # row.id }
                    ELSE d.chunks
    IN  [ d EXCEPT
            !.issues = [ id \in DOMAIN d.issues \cup {row.id} |->
                           IF id = row.id
                           THEN [project_id |-> row.project_id, updated_at |-> row.updated_at]
                           ELSE d.issues[id] ],
            !.chunks = kept ]

\* chunks.id without AUTOINCREMENT: the rowid is one more than the largest in the table.
insertChunk_ReuseRowid(d, chunk, embedding) ==
    LET used == { c.id : c \in d.chunks } \cup { v.chunk_id : v \in d.vec_chunks }
        chunkId == IF used = {} THEN 1
                   ELSE 1 + CHOOSE m \in used : \A x \in used : x <= m
    IN  [ d EXCEPT
            !.chunks     = @ \cup { [ id         |-> chunkId,
                                      issue_id   |-> chunk.issue_id,
                                      chunk_type |-> chunk.chunk_type,
                                      note_id    |-> chunk.note_id,
                                      text       |-> chunk.text ] },
            !.seq        = chunkId,
            !.vec_chunks = @ \cup { [chunk_id |-> chunkId, embedding |-> embedding] },
            !.log        = @ \cup { <<chunkId, chunk.issue_id>> } ]

insertChunk(d, chunk, embedding) ==
    LET chunkId == d.seq + 1
    IN  [ d EXCEPT
            !.chunks     = @ \cup { [ id         |-> chunkId,
                                      issue_id   |-> chunk.issue_id,
                                      chunk_type |-> chunk.chunk_type,
                                      note_id    |-> chunk.note_id,
                                      text       |-> chunk.text ] },
            !.seq        = chunkId,
            !.vec_chunks = @ \cup { [chunk_id |-> chunkId, embedding |-> embedding] },
            !.log        = @ \cup { <<chunkId, chunk.issue_id>> } ]

\* The store as it is between the two kinds of DELETE statements: the vector
\* rows gone, the chunk rows still there.
deleteIssueChunks_VectorsOnly(d, issueId) ==
    LET ids == { c.id : c \in { c \in d.chunks : c.issue_id = issueId } }
    IN  [ d EXCEPT !.vec_chunks = { v \in @ : v.chunk_id \notin ids } ]
\* The statements run one after the other with no await between them: the
\* event loop runs no other handler before the method returns.
deleteIssueChunks(d, issueId) ==
    LET ids == { c.id : c \in { c \in d.chunks : c.issue_id = issueId } }
    IN  [ d EXCEPT
            !.vec_chunks = { v \in @ : v.chunk_id \notin ids },
            !.chunks     = { c \in @ : c.issue_id # issueId } ]

\* The row of issues left behind.
deleteIssue_ChunksOnly(d, issueId) == deleteIssueChunks(d, issueId)

\* Only the row of issues is deleted, the chunks and vectors left behind.
deleteIssue_RowOnly(d, issueId) ==
    [ d EXCEPT !.issues = [ id \in DOMAIN d.issues \ {issueId} |-> d.issues[id] ] ]

deleteIssue(d, issueId) ==
    LET d1 == deleteIssueChunks(d, issueId)
    IN  [ d1 EXCEPT !.issues = [ id \in DOMAIN d1.issues \ {issueId} |-> d1.issues[id] ] ]

getStoredIssueTimestamps(d) == [ id \in DOMAIN d.issues |-> d.issues[id].updated_at ]

\* db.transaction(fn): fn threw after it had brought the store from `before` to
\* `partial`; ROLLBACK restores every table (sqlite_sequence with them).
Rollback_None(before, partial) == partial

\* The rollback restores the store as it was when the sync was accepted.
Rollback_ToSyncStart(before, partial) == run.pre
Rollback(before, partial) == before

\* getMeta: the value as a one-element sequence, null as the empty sequence
getMeta(d, key) ==
    IF key \in DOMAIN d.sync_metadata THEN <<d.sync_metadata[key]>> ELSE <<>>

setMeta(d, key, value) ==
    [ d EXCEPT !.sync_metadata =
        [ k \in DOMAIN d.sync_metadata \cup {key} |->
            IF k = key THEN value ELSE d.sync_metadata[k] ] ]

getCounts(d) == [ issues |-> Cardinality(DOMAIN d.issues), chunks |-> Cardinality(d.chunks) ]

\* The cosine distance of sqlite-vec, 0 (identical) to 2, on the vectors of
\* Embed: 0 for the same text, 1 for two texts on the same issue number.
Distance(q, e) ==
    IF q = e THEN 0
    ELSE IF q[1].of[2] = e[1].of[2] THEN 1 ELSE 2

\* v comes before w in `ORDER BY v.distance`, equal distances in rowid order
Before(q, v, w) ==
    \/ Distance(q, v.embedding) < Distance(q, w.embedding)
    \/ /\ Distance(q, v.embedding) = Distance(q, w.embedding)
       /\ v.chunk_id <= w.chunk_id

\* The rows in rowid order, the distance unread.
RECURSIVE Nearest_Unordered(_, _, _)
Nearest_Unordered(V, q, k) ==
    IF k = 0 \/ V = {} THEN <<>>
    ELSE LET m == CHOOSE v \in V : \A w \in V : v.chunk_id <= w.chunk_id
         IN  <<m>> \o Nearest_Unordered(V \ {m}, q, k - 1)

\* The k rows of V nearest to q, nearest first.
RECURSIVE Nearest(_, _, _)
Nearest(V, q, k) ==
    IF k = 0 \/ V = {} THEN <<>>
    ELSE LET m == CHOOSE v \in V : \A w \in V : Before(q, v, w)
         IN  <<m>> \o Nearest(V \ {m}, q, k - 1)

HasChunk(d, v) == \E c \in d.chunks : c.id = v.chunk_id

\* vector-store.ts:179-190, one row of the join
SearchResult(d, q, v) ==
    LET c == CHOOSE c \in d.chunks : c.id = v.chunk_id
    IN  [ chunk_id   |-> v.chunk_id,
          distance   |-> Distance(q, v.embedding),
          issue_id   |-> c.issue_id,
          chunk_type |-> c.chunk_type,
          note_id    |-> c.note_id,
          text       |-> c.text ]

SearchResults(d, q, vs) ==
    LET joined == SelectSeq(vs, LAMBDA v : HasChunk(d, v))
    IN  [n \in 1..Len(joined) |-> SearchResult(d, q, joined[n])]

\* VectorStore.search: the row lists the query can return. LIMIT is either
\* handed to the KNN scan of vec_chunks as its k, the join with chunks made on
\* the k nearest vectors, or applied to the joined rows; which one is up to
\* the query planner.
search(d, queryEmbedding, limit) ==
    { SearchResults(d, queryEmbedding, Nearest(d.vec_chunks, queryEmbedding, limit)),
      SearchResults(d, queryEmbedding,
                    Nearest({ v \in d.vec_chunks : HasChunk(d, v) }, queryEmbedding, limit)) }

----------------------------------------------------------------------------
(* Sync engine                                                             *)

\* `if (!storedTs)`: no stored row (undefined) or an empty string
Falsy(ts) == ts = ""

StoredTs(stored, id) == IF id \in DOMAIN stored THEN stored[id] ELSE ""

\* server.ts:142-152, the ids of the headers to add, in header order
DiffToAdd(headers, stored) ==
    LET test(h) == Falsy(StoredTs(stored, h.id))
        sel == SelectSeq(headers, test)
    IN  [n \in 1..Len(sel) |-> sel[n].id]

\* The update test without its `else`: an id with no stored row is an update too.
DiffToUpdate_NoElse(headers, stored) ==
    LET test(h) == StoredTs(stored, h.id) # h.updated_at
        sel == SelectSeq(headers, test)
    IN  [n \in 1..Len(sel) |-> sel[n].id]

\* Every stored id of the header list is an update, its timestamp unread.
DiffToUpdate_Always(headers, stored) ==
    LET test(h) == ~Falsy(StoredTs(stored, h.id))
        sel == SelectSeq(headers, test)
    IN  [n \in 1..Len(sel) |-> sel[n].id]

\* server.ts:142-152, the ids of the headers to update, in header order
DiffToUpdate(headers, stored) ==
    LET test(h) == ~Falsy(StoredTs(stored, h.id)) /\ StoredTs(stored, h.id) # h.updated_at
        sel == SelectSeq(headers, test)
    IN  [n \in 1..Len(sel) |-> sel[n].id]

\* server.ts:154-160, the stored ids the header list does not hold
DiffToDelete(headers, stored) ==
    LET remoteIds == { headers[n].id : n \in 1..Len(headers) }
    IN  SortedSeq({ id \in DOMAIN stored : id \notin remoteIds })

\* server.ts:166-169
RECURSIVE ApplyDeletes(_, _)
ApplyDeletes(d, toDelete) ==
    IF toDelete = <<>> THEN d
    ELSE ApplyDeletes(deleteIssue(d, Head(toDelete)), Tail(toDelete))

\* The purge of a fetched update also writes the fetched updated_at into the
\* record row, ahead of the embedding and outside the transaction.
PurgeUpdated_StampsRow(d, issues, toUpdate) ==
    LET upd == { n \in 1..Len(issues) : issues[n].id \in Range(toUpdate) }
        ids == { issues[n].id : n \in upd }
    IN  [d EXCEPT !.vec_chunks = { v \in @ : \A c \in d.chunks :
                                       c.issue_id \in ids => v.chunk_id # c.id },
                  !.chunks = { c \in @ : c.issue_id \notin ids },
                  !.issues = [ id \in DOMAIN @ |->
                                 IF id \in ids
                                 THEN [ @[id] EXCEPT !.updated_at =
                                          issues[CHOOSE n \in upd : issues[n].id = id].updated_at ]
                                 ELSE @[id] ]]
\* The purge made for every id classified as update, fetched or not.
PurgeUpdated_AllUpdates(d, issues, toUpdate) ==
    [d EXCEPT !.vec_chunks = { v \in @ : \A c \in d.chunks :
                                   c.issue_id \in Range(toUpdate) => v.chunk_id # c.id },
              !.chunks = { c \in @ : c.issue_id \notin Range(toUpdate) }]
\* server.ts:191-196
RECURSIVE PurgeUpdated(_, _, _)
PurgeUpdated(d, issues, toUpdate) ==
    IF issues = <<>> THEN d
    ELSE LET issue == Head(issues)
             d1 == IF issue.id \in Range(toUpdate) THEN deleteIssueChunks(d, issue.id) ELSE d
         IN  PurgeUpdated(d1, Tail(issues), toUpdate)

\* server.ts:198-209
RECURSIVE AllChunks(_)
AllChunks(issues) ==
    IF issues = <<>> THEN <<>>
    ELSE LET issue == Head(issues)
             chunks == buildChunks(issue)
         IN  [n \in 1..Len(chunks) |-> [issue |-> issue, chunk |-> chunks[n]]]
             \o AllChunks(Tail(issues))

\* Every chunk stored with the vector of the issue it belongs to, counted
\* from the start of the batch, instead of its own.
RECURSIVE InsertTransaction_VectorPerIssue(_, _, _, _)
InsertTransaction_VectorPerIssue(d, allChunks, embeddings, j) ==
    IF j > Len(allChunks) THEN d
    ELSE LET issue == allChunks[j].issue
             chunk == allChunks[j].chunk
             nth   == Cardinality({ allChunks[m].issue.id : m \in 1..j })
             d1 == insertIssue(d, [ id         |-> issue.id,
                                    project_id |-> issue.project.id,
                                    updated_at |-> issue.updated_at ])
             d2 == insertChunk(d1, [ issue_id   |-> issue.id,
                                     chunk_type |-> chunk.chunk_type,
                                     note_id    |-> chunk.note_id,
                                     text       |-> chunk.text ],
                               embeddings[nth])
         IN  InsertTransaction_VectorPerIssue(d2, allChunks, embeddings, j + 1)
\* server.ts:216-246, the body of insertTransaction from index j on
RECURSIVE InsertTransaction(_, _, _, _)
InsertTransaction(d, allChunks, embeddings, j) ==
    IF j > Len(allChunks) THEN d
    ELSE LET issue == allChunks[j].issue
             chunk == allChunks[j].chunk
             d1 == insertIssue(d, [ id         |-> issue.id,
                                    project_id |-> issue.project.id,
                                    updated_at |-> issue.updated_at ])
             d2 == insertChunk(d1, [ issue_id   |-> issue.id,
                                     chunk_type |-> chunk.chunk_type,
                                     note_id    |-> chunk.note_id,
                                     text       |-> chunk.text ],
                               embeddings[j])
         IN  InsertTransaction(d2, allChunks, embeddings, j + 1)

\* server.ts:217-232, the ids store.insertIssue is called with by one run of
\* insertTransaction, in the order of the calls.
Upserts(allChunks) == [ j \in 1..Len(allChunks) |-> allChunks[j].issue.id ]

ToProcess(s) == s.toAdd \o s.toUpdate

\* Every batch sliced from the start of the list.
BatchIds_FromStart(s) == Slice(ToProcess(s), 0, batchSize)
BatchIds(s) == Slice(ToProcess(s), s.i, s.i + batchSize)

IdleSync ==
    [ pc |-> "idle", projectId |-> 0, headers |-> <<>>, toAdd |-> <<>>,
      toUpdate |-> <<>>, toDelete |-> <<>>, i |-> 0, k |-> 1, issues |-> <<>>,
      allChunks |-> <<>> ]

\* What is remembered of an accepted syncIndex call (history, not program state).
NoRun ==
    [ outcome   |-> "none",    \* "running", "returned" or "threw"
      projectId |-> 0,
      pre       |-> EmptyDb,   \* the store when the call was accepted
      diffed    |-> FALSE,     \* the header fetch resolved and the diff was made
      dirty     |-> FALSE,     \* the remote changed while the call was in flight
      after     |-> FALSE,     \* the remote changed after the call ended
      failed    |-> {},        \* ids whose getIssue failed
      fetched   |-> {},        \* ids whose getIssue succeeded
      persisted |-> {},        \* ids upserted by a transaction that committed
      committed |-> EmptyDb,   \* the store after the deletes / the latest commit of the call
      commits   |-> 0,         \* batches committed by the call
      cause     |-> "none",    \* what the call threw on: "headers", "embed" or "persist"
      batch     |-> {},        \* the ids of the batch whose transaction failed
      result    |-> [added |-> 0, updated |-> 0, deleted |-> 0,
                     totalIssues |-> 0, totalChunks |-> 0] ]

\* The flag is read as taken whatever the latch holds.
isSyncing_Always == TRUE

\* isSyncing()
isSyncing == syncing

\* The latch test left out.
Latched_Never == FALSE

\* server.ts:123, the latch test at the entry of syncIndex
Latched == syncing

\* params.query of the search tool, as texts
Queries == { <<"Issue", 1, "s">>, <<"Issue", 2, "q">> }

\* params.limit of the search tool (1 to 50)
Limits == {1, 2}

\* No search call in flight, no reply yet.
IdleSearch ==
    [ pc      |-> "idle",   \* "load" (getPipeline awaited) or "infer" (pipe awaited)
      query   |-> <<>>,
      limit   |-> 0,
      out     |-> "none",   \* the latest reply: "empty", "noresults", "results" or "error"
      results |-> <<>>,     \* the rows of the latest reply
      deleted |-> {} ]      \* history: the ids the current / latest sync had deleted at the reply

\* No sync_status reply yet; a reply is a one-element sequence.
NoStatus == <<>>

\* The lists of texts handed to embedBatch directly: n texts, all different.
TextsOf(n, first) == [ k \in 1..n |-> <<"Issue", first + k, "s">> ]
TextLists == { TextsOf(n, first) : n \in 0..MaxTexts, first \in {0, 1} }

\* The issues handed to buildChunks directly: up to MaxNotes notes whose text
\* is empty, whitespace only, plain, or padded with whitespace.
PaddedText == <<" ", "y", " ">>
NoteTexts == { <<>>, BlankText, SomeText, PaddedText }
NoteLists == UNION { [1..n -> NoteTexts] : n \in 0..MaxNotes }
FullIssues == { MantisIssue(id, "t1", texts) : id \in Ids, texts \in NoteLists }

\* No direct call made yet.
NoCall == [ fn |-> "none", pc |-> "done", arg |-> <<>>, i |-> 0, results |-> <<>> ]

\* No accepted call before the latest one.
NoPrev ==
    [ outcome |-> "none", projectId |-> 0, failed |-> FALSE, dirty |-> FALSE,
      after |-> FALSE, counts |-> getCounts(EmptyDb),
      unpersisted |-> {} ]     \* the headers of the adds and updates it did not persist

Started ==
    /\ \E S \in SUBSET Ids : \E f \in [S -> NoteTextLists] :
          remote = [id \in S |-> MantisIssue(id, "t1", f[id])]
    /\ db = EmptyDb
    /\ syncing = FALSE
    /\ sync = IdleSync
    /\ run = NoRun
    /\ prev = NoPrev
    /\ lastCall = "none"
    /\ nsyncs = 0
    /\ nchanges = 0
    /\ pipeline = NoPipeline
    /\ searchTool = IdleSearch
    /\ status = NoStatus
    /\ call = NoCall

\* The store a sync of the remote r that returned has left (the file is kept
\* from one run of the server to the next).
Indexed(r) ==
    LET headers == fetchAllIssueHeaders(r, 0)
        issues == [n \in 1..Len(headers) |-> r[headers[n].id]]
        allChunks == AllChunks(issues)
        texts == [n \in 1..Len(allChunks) |-> allChunks[n].chunk.text]
        d1 == InsertTransaction(EmptyDb, allChunks, embedBatch(texts), 1)
        d2 == setMeta(d1, "last_sync", 0)
    IN  setMeta(d2, "last_sync_result",
                [added |-> Len(headers), updated |-> 0, deleted |-> 0])

\* The server is started on the store of an earlier run: some issues of the
\* remote are indexed, some of those were edited since.
InitIndexed ==
    /\ \E S \in SUBSET Ids : \E f \in [S -> NoteTextLists] :
          \E T \in SUBSET S : \E E \in SUBSET T :
             /\ remote = [id \in S |-> MantisIssue(id, IF id \in E THEN "t2" ELSE "t1", f[id])]
             /\ db = Indexed([id \in T |-> MantisIssue(id, "t1", f[id])])
    /\ syncing = FALSE
    /\ sync = IdleSync
    /\ run = NoRun
    /\ prev = NoPrev
    /\ lastCall = "none"
    /\ nsyncs = 0
    /\ nchanges = 0
    /\ pipeline = NoPipeline
    /\ searchTool = IdleSearch
    /\ status = NoStatus
    /\ call = NoCall
    /\ batchSize = SYNC_BATCH_SIZE

\* config.ts:91, the configured batch size
Init == Started /\ batchSize = SYNC_BATCH_SIZE

\* The same server configured with a batch size one larger.
InitWide == Started /\ batchSize = SYNC_BATCH_SIZE + 1

----------------------------------------------------------------------------
(* Remote changes: issues are filed, edited and deleted in MantisBT        *)

RemoteChanged ==
    /\ nchanges' = nchanges + 1
    /\ run' = IF sync.pc = "idle" THEN [run EXCEPT !.after = TRUE]
                                  ELSE [run EXCEPT !.dirty = TRUE]
    /\ UNCHANGED <<db, syncing, sync, prev, lastCall, nsyncs, batchSize, pipeline, searchTool, status, call>>

RemoteCreate(id, ts, texts) ==
    /\ nchanges < MaxRemoteChanges
    /\ id \notin DOMAIN remote
    /\ remote' = [x \in DOMAIN remote \cup {id} |->
                    IF x = id THEN MantisIssue(id, ts, texts) ELSE remote[x]]
    /\ RemoteChanged

RemoteEdit(id, ts, texts) ==
    /\ nchanges < MaxRemoteChanges
    /\ id \in DOMAIN remote
    /\ ts # remote[id].updated_at
    /\ remote' = [remote EXCEPT ![id] = MantisIssue(id, ts, texts)]
    /\ RemoteChanged

RemoteDrop(id) ==
    /\ nchanges < MaxRemoteChanges
    /\ id \in DOMAIN remote
    /\ remote' = [x \in DOMAIN remote \ {id} |-> remote[x]]
    /\ RemoteChanged

----------------------------------------------------------------------------
(* syncIndex                                                               *)

\* The locals of a call that ended: the diff is kept for the record.
Ended(s) ==
    [ IdleSync EXCEPT !.projectId = s.projectId, !.headers = s.headers,
                      !.toAdd = s.toAdd, !.toUpdate = s.toUpdate,
                      !.toDelete = s.toDelete ]

\* server.ts:256-284: the metadata is written (last_sync is the time of the
\* call, here its ordinal), the counts are read, the latch is released and the
\* call returns.
Return(d, s, r) ==
    LET res == [added |-> Len(s.toAdd), updated |-> Len(s.toUpdate),
                deleted |-> Len(s.toDelete)]
        d1 == setMeta(d, "last_sync", nsyncs)
        d2 == setMeta(d1, "last_sync_result", res)
        counts == getCounts(d2)
    IN  /\ db' = d2
        /\ sync' = Ended(s)
        /\ syncing' = FALSE
        /\ lastCall' = "none"
        /\ run' = [r   EXCEPT !.outcome = "returned",
                              !.result = [added |-> res.added, updated |-> res.updated,
                                          deleted |-> res.deleted,
                                          totalIssues |-> counts.issues,
                                          totalChunks |-> counts.chunks]]

\* The exception leaves syncIndex with no finally block: the latch stays taken.
Throw_NoFinally(d, s, r) ==
    /\ db' = d
    /\ sync' = Ended(s)
    /\ syncing' = syncing
    /\ lastCall' = "none"
    /\ run' = [r EXCEPT !.outcome = "threw"]
\* server.ts:282-284: an exception leaves through the finally block.
Throw(d, s, r) ==
    /\ db' = d
    /\ sync' = Ended(s)
    /\ syncing' = FALSE
    /\ lastCall' = "none"
    /\ run' = [r EXCEPT !.outcome = "threw"]

\* server.ts:117-135: the call is accepted, the latch is taken and the header
\* fetch is awaited.
SyncIndexAccept(projectId) ==
    /\ nsyncs < MaxSyncs
    /\ ~Latched
    /\ syncing' = TRUE
    /\ sync' = [IdleSync EXCEPT !.pc = "headers", !.projectId = projectId]
    /\ prev' = [ outcome |-> run.outcome, projectId |-> run.projectId,
                 failed |-> run.failed # {}, dirty |-> run.dirty,
                 after |-> run.after, counts |-> getCounts(db),
                 unpersisted |-> { h \in Range(sync.headers) :
                                     /\ h.id \in Range(ToProcess(sync))
                                     /\ h.id \notin run.persisted } ]
    /\ run' = [NoRun EXCEPT !.outcome = "running", !.projectId = projectId, !.pre = db]
    /\ lastCall' = "accepted"
    /\ nsyncs' = nsyncs + 1
    /\ UNCHANGED <<remote, db, nchanges, batchSize, pipeline, searchTool, status, call>>

\* The latch test made inside the try block: the finally block frees the latch
\* of the sync in flight.
SyncIndexThrow_Finally ==
    /\ Latched
    /\ lastCall' = "threw"
    /\ syncing' = FALSE
    /\ UNCHANGED <<remote, db, sync, run, prev, nsyncs, nchanges, batchSize, pipeline, searchTool, status, call>>
\* server.ts:123-125: a direct call (index.ts:27) while the latch is taken throws.
SyncIndexThrow ==
    /\ Latched
    /\ lastCall' = "threw"
    /\ UNCHANGED <<remote, db, syncing, sync, run, prev, nsyncs, nchanges, batchSize, pipeline, searchTool, status, call>>

\* search.ts:112-122: the sync_index tool answers with an error before it
\* calls syncIndex.
SyncToolBusy ==
    /\ isSyncing
    /\ lastCall' = "busy"
    /\ UNCHANGED <<remote, db, syncing, sync, run, prev, nsyncs, nchanges, batchSize, pipeline, searchTool, status, call>>

\* server.ts:135-182: the header fetch resolves; the diff is computed, the
\* deletes are applied and the first getIssue is awaited (or, with nothing to
\* process, the call returns).
HeadersResolve ==
    /\ sync.pc = "headers"
    /\ LET headers == fetchAllIssueHeaders(remote, sync.projectId)
           stored == getStoredIssueTimestamps(db)
           s1 == [sync EXCEPT !.headers = headers,
                              !.toAdd = DiffToAdd(headers, stored),
                              !.toUpdate = DiffToUpdate(headers, stored),
                              !.toDelete = DiffToDelete(headers, stored)]
           d1 == ApplyDeletes(db, s1.toDelete)
           r1 == [run EXCEPT !.diffed = TRUE, !.committed = d1]
       IN  IF Len(ToProcess(s1)) = 0
           THEN Return(d1, s1, r1)
           ELSE /\ db' = d1
                /\ sync' = [s1 EXCEPT !.pc = "fetch"]
                /\ run' = r1
                /\ UNCHANGED <<syncing, lastCall>>
    /\ UNCHANGED <<remote, prev, nsyncs, nchanges, batchSize, pipeline, searchTool, status, call>>

\* The failed header fetch taken for an empty header list: the diff and the
\* deletes run before the sync throws.
HeadersReject_EmptyList ==
    /\ sync.pc = "headers"
    /\ Throw(ApplyDeletes(db, DiffToDelete(<<>>, getStoredIssueTimestamps(db))), sync,
             [run EXCEPT !.cause = "headers"])
    /\ UNCHANGED <<remote, prev, nsyncs, nchanges, batchSize, pipeline, searchTool, status, call>>
\* server.ts:135: the header fetch rejects.
HeadersReject ==
    /\ sync.pc = "headers"
    /\ Throw(db, sync, [run EXCEPT !.cause = "headers"])
    /\ UNCHANGED <<remote, prev, nsyncs, nchanges, batchSize, pipeline, searchTool, status, call>>

\* server.ts:191-213: with the batch fetched, the chunks of the updated issues
\* are purged, the chunks of the batch are built and embedBatch is awaited.
AfterFetch(s) ==
    LET allChunks == AllChunks(s.issues)
    IN  /\ db' = PurgeUpdated(db, s.issues, s.toUpdate)
        /\ sync' = [s EXCEPT !.pc = IF Len(allChunks) > 0 /\ MustLoad(pipeline)
                                    THEN "load" ELSE "embed",
                             !.allChunks = allChunks]

\* server.ts:180-189: getIssue settles for the k-th id of the batch.
GetIssueSettled(s) ==
    IF s.k = Len(BatchIds(s))
    THEN AfterFetch(s)
    ELSE /\ sync' = [s EXCEPT !.k = s.k + 1]
         /\ db' = db

GetIssueResolve ==
    /\ sync.pc = "fetch"
    /\ LET id == BatchIds(sync)[sync.k]
       IN  /\ id \in DOMAIN remote
           /\ GetIssueSettled([sync EXCEPT !.issues = Append(@, remote[id])])
           /\ run' = [run EXCEPT !.fetched = @ \cup {id}]
    /\ UNCHANGED <<remote, syncing, prev, lastCall, nsyncs, nchanges, batchSize, pipeline, searchTool, status, call>>

\* The catch block rethrows: a failed getIssue ends the sync.
GetIssueReject_Rethrow ==
    /\ sync.pc = "fetch"
    /\ LET id == BatchIds(sync)[sync.k]
       IN  Throw(db, sync, [run EXCEPT !.failed = @ \cup {id}, !.cause = "fetch"])
    /\ UNCHANGED <<remote, prev, nsyncs, nchanges, batchSize, pipeline, searchTool, status, call>>

\* server.ts:183-188: getIssue rejects; the catch block logs and the loop goes on.
GetIssueReject ==
    /\ sync.pc = "fetch"
    /\ LET id == BatchIds(sync)[sync.k]
       IN  /\ GetIssueSettled(sync)
           /\ run' = [run EXCEPT !.failed = @ \cup {id}]
    /\ UNCHANGED <<remote, syncing, prev, lastCall, nsyncs, nchanges, batchSize, pipeline, searchTool, status, call>>

\* server.ts:213-254: embedBatch resolves and the transaction commits; the
\* next batch starts, or the call returns.
PersistCommit ==
    /\ sync.pc = "embed"
    /\ LET texts == [n \in 1..Len(sync.allChunks) |-> sync.allChunks[n].chunk.text]
           embeddings == embedBatch(texts)
           d1 == InsertTransaction(db, sync.allChunks, embeddings, 1)
           s1 == [sync EXCEPT !.i = @ + batchSize, !.k = 1,
                              !.issues = <<>>, !.allChunks = <<>>]
           r1 == [run EXCEPT !.committed = d1, !.commits = @ + 1,
                             !.persisted = @ \cup Range(Upserts(sync.allChunks))]
       IN  IF s1.i < Len(ToProcess(s1))
           THEN /\ db' = d1
                /\ sync' = [s1 EXCEPT !.pc = "fetch"]
                /\ run' = r1
                /\ UNCHANGED <<syncing, lastCall>>
           ELSE Return(d1, s1, r1)
    /\ UNCHANGED <<remote, prev, nsyncs, nchanges, batchSize, pipeline, searchTool, status, call>>

\* server.ts:248: the n-th insert of the transaction fails; better-sqlite3
\* rolls the transaction back and rethrows.
PersistRollback ==
    /\ sync.pc = "embed"
    /\ \E n \in 1..Len(sync.allChunks) :
          LET texts == [m \in 1..Len(sync.allChunks) |-> sync.allChunks[m].chunk.text]
              partial == InsertTransaction(db, SubSeq(sync.allChunks, 1, n - 1),
                                           embedBatch(texts), 1)
          IN  Throw(Rollback(db, partial), sync,
                    [run EXCEPT !.cause = "persist", !.batch = Range(BatchIds(sync))])
    /\ UNCHANGED <<remote, prev, nsyncs, nchanges, batchSize, pipeline, searchTool, status, call>>

\* part_000:23-36: the model is loaded for the embedBatch call of the sync.
EmbedPipelineLoaded ==
    /\ sync.pc = "load"
    /\ pipeline' = PipelineAssigned(pipeline)
    /\ sync' = [sync EXCEPT !.pc = "embed"]
    /\ UNCHANGED <<remote, db, syncing, run, prev, lastCall, nsyncs, nchanges,
                   batchSize, searchTool, status, call>>

\* server.ts:213: embedBatch rejects, the load of the model or the inference
\* failed (it returns [] for no texts).
EmbedReject ==
    /\ sync.pc \in {"load", "embed"}
    /\ Len(sync.allChunks) > 0
    /\ Throw(db, sync, [run EXCEPT !.cause = "embed"])
    /\ UNCHANGED <<remote, prev, nsyncs, nchanges, batchSize, pipeline, searchTool, status, call>>

----------------------------------------------------------------------------
(* The search and sync_status tools                                        *)

\* The test for an empty index left out.
IndexEmpty_Never(counts) == FALSE

\* search.ts:32, `if (counts.chunks === 0)`
IndexEmpty(counts) == counts.chunks = 0

\* search.ts:31-43: the index is empty and the call answers at once, or
\* embed(params.query) is awaited (getPipeline first, part_000:40).
\* The search tool waits for the sync latch to be free.
SearchCall_Latched(query, limit) ==
    /\ ~isSyncing
    /\ searchTool.pc = "idle"
    /\ searchTool' =
          IF IndexEmpty(getCounts(db))
          THEN [IdleSearch EXCEPT !.out = "empty"]
          ELSE [IdleSearch EXCEPT !.pc = IF MustLoad(pipeline) THEN "load" ELSE "infer",
                                  !.query = query, !.limit = limit]
    /\ UNCHANGED <<remote, db, syncing, sync, run, prev, lastCall, nsyncs, nchanges,
                   batchSize, pipeline, status, call>>
SearchCall(query, limit) ==
    /\ searchTool.pc = "idle"
    /\ searchTool' =
          IF IndexEmpty(getCounts(db))
          THEN [IdleSearch EXCEPT !.out = "empty"]
          ELSE [IdleSearch EXCEPT !.pc = IF MustLoad(pipeline) THEN "load" ELSE "infer",
                                  !.query = query, !.limit = limit]
    /\ UNCHANGED <<remote, db, syncing, sync, run, prev, lastCall, nsyncs, nchanges,
                   batchSize, pipeline, status, call>>

\* part_000:23-36: the model is loaded for the embed call of the search.
SearchPipelineLoaded ==
    /\ searchTool.pc = "load"
    /\ pipeline' = PipelineAssigned(pipeline)
    /\ searchTool' = [searchTool EXCEPT !.pc = "infer"]
    /\ UNCHANGED <<remote, db, syncing, sync, run, prev, lastCall, nsyncs, nchanges,
                   batchSize, status, call>>

\* search.ts:43-83: embed resolves, store.search runs and the reply is made.
SearchReply ==
    /\ searchTool.pc = "infer"
    /\ \E rows \in search(db, Embed(searchTool.query), searchTool.limit) :
          searchTool' = [ pc      |-> "idle",
                          query   |-> searchTool.query,
                          limit   |-> searchTool.limit,
                          out     |-> IF Len(rows) = 0 THEN "noresults" ELSE "results",
                          results |-> rows,
                          deleted |-> IF run.diffed THEN Range(sync.toDelete) ELSE {} ]
    /\ UNCHANGED <<remote, db, syncing, sync, run, prev, lastCall, nsyncs, nchanges,
                   batchSize, pipeline, status, call>>

\* The score taken as 1 - distance, the halving left out.
similarity_NoHalf(n) == [ num |-> (DistScale - n) * 100, den |-> DistScale ]
\* search.ts:61, `(1 - r.distance / 2) * 100` for the distance n / DistScale:
\* the percentage as the fraction num / den.
similarity(n) == [ num |-> (2 * DistScale - n) * 100, den |-> 2 * DistScale ]

\* Number.prototype.toFixed(1) of the fraction x >= 0: the nearest multiple of
\* 0.1, as a count of tenths.
toFixed1(x) == (x.num * 20 + x.den) \div (2 * x.den)

\* search.ts:84-94: embed rejects or store.search throws; the reply is an error.
SearchError ==
    /\ searchTool.pc \in {"load", "infer"}
    /\ searchTool' = [IdleSearch EXCEPT !.out = "error"]
    /\ UNCHANGED <<remote, db, syncing, sync, run, prev, lastCall, nsyncs, nchanges,
                   batchSize, pipeline, status, call>>

\* index.ts:9-44: the server is shut down with no call in flight and started
\* again on the same database file; the module variables are fresh.
ProcessRestart ==
    /\ sync.pc = "idle"
    /\ searchTool.pc = "idle"
    /\ pipeline' = NoPipeline
    /\ searchTool' = IdleSearch
    /\ UNCHANGED <<remote, db, syncing, sync, run, prev, lastCall, nsyncs, nchanges,
                   batchSize, status, call>>

\* search.ts:165-192, the reply of sync_status
sync_status(d, inProgress) ==
    [ issues         |-> getCounts(d).issues,
      chunks         |-> getCounts(d).chunks,
      lastSync       |-> getMeta(d, "last_sync"),
      lastSyncResult |-> getMeta(d, "last_sync_result"),
      syncInProgress |-> inProgress ]

SyncStatus ==
    /\ status' = <<sync_status(db, isSyncing)>>
    /\ UNCHANGED <<remote, db, syncing, sync, run, prev, lastCall, nsyncs, nchanges,
                   batchSize, pipeline, searchTool, call>>

----------------------------------------------------------------------------
(* Direct calls of the exported functions                                  *)

\* embedBatch(texts) up to its first await: [] for no texts, else getPipeline
\* and the first pipe call are awaited.
EmbedBatchCall(texts) ==
    /\ call.pc = "done"
    /\ call' = [ fn |-> "embedBatch", arg |-> texts, i |-> 0, results |-> <<>>,
                 pc |-> IF Len(texts) = 0 THEN "done" ELSE "pipe" ]
    /\ UNCHANGED <<remote, db, syncing, sync, run, prev, lastCall, nsyncs, nchanges,
                   batchSize, pipeline, searchTool, status>>

\* `await pipe(batch)` resolves: the vectors of the sub-batch are pushed, i
\* advances, and the loop either awaits the next sub-batch or returns.
EmbedBatchPipe ==
    /\ call.fn = "embedBatch"
    /\ call.pc = "pipe"
    /\ LET results == call.results \o SubBatch(call.arg, call.i)
           i       == call.i + SUB_BATCH_SIZE
       IN  call' = [ call EXCEPT !.results = results, !.i = i,
                                 !.pc = IF i < Len(call.arg) THEN "pipe" ELSE "done" ]
    /\ pipeline' = IF MustLoad(pipeline) THEN PipelineAssigned(pipeline) ELSE pipeline
    /\ UNCHANGED <<remote, db, syncing, sync, run, prev, lastCall, nsyncs, nchanges,
                   batchSize, searchTool, status>>

\* buildChunks(issue): synchronous
BuildChunksCall(issue) ==
    /\ call.pc = "done"
    /\ call' = [ fn |-> "buildChunks", arg |-> issue, i |-> 0,
                 results |-> buildChunks(issue), pc |-> "done" ]
    /\ UNCHANGED <<remote, db, syncing, sync, run, prev, lastCall, nsyncs, nchanges,
                   batchSize, pipeline, searchTool, status>>

\* search.ts:60-63, the score of one result row at the distance n / DistScale
\* and the percentage shown for it.
SimilarityCall(n) ==
    /\ call.pc = "done"
    /\ call' = [ fn |-> "similarity", arg |-> n, i |-> 0, pc |-> "done",
                 results |-> <<similarity(n), toFixed1(similarity(n))>> ]
    /\ UNCHANGED <<remote, db, syncing, sync, run, prev, lastCall, nsyncs, nchanges,
                   batchSize, pipeline, searchTool, status>>

\* The steps of the accepted syncIndex calls.
NextSync ==
    \/ \E projectId \in ProjectIds : SyncIndexAccept(projectId)
    \/ HeadersResolve
    \/ HeadersReject
    \/ GetIssueResolve
    \/ GetIssueReject
    \/ EmbedPipelineLoaded
    \/ PersistCommit
    \/ PersistRollback
    \/ EmbedReject

Next ==
    \/ \E id \in Ids, ts \in Timestamps, texts \in NoteTextLists : RemoteCreate(id, ts, texts)
    \/ \E id \in Ids, ts \in Timestamps, texts \in NoteTextLists : RemoteEdit(id, ts, texts)
    \/ \E id \in Ids : RemoteDrop(id)
    \/ NextSync
    \/ SyncIndexThrow
    \/ SyncToolBusy

Spec == Init /\ [][Next]_vars

SpecWide == InitWide /\ [][Next]_vars

\* The accepted syncs, issues deleted in the remote, search tool calls in
\* between and restarts of the server.
NextSearch ==
    \/ NextSync
    \/ \E id \in Ids : RemoteDrop(id)
    \/ \E query \in Queries, limit \in Limits : SearchCall(query, limit)
    \/ SearchPipelineLoaded
    \/ SearchReply
    \/ SearchError
    \/ ProcessRestart

SpecSearch == Init /\ [][NextSearch]_vars

\* The accepted syncs, issues deleted in the remote and sync_status tool calls
\* in between.
NextStatus ==
    \/ NextSync
    \/ \E id \in Ids : RemoteDrop(id)
    \/ SyncStatus

SpecStatus == Init /\ [][NextStatus]_vars

\* A promise the sync in flight awaits settles: the HTTP requests of the
\* client resolve or reject within the axios timeout (part_000:188), the
\* model load and the inference run in this process, and the transaction is
\* synchronous.
Settle ==
    \/ HeadersReject
    \/ HeadersResolve
    \/ GetIssueReject
    \/ GetIssueResolve
    \/ EmbedPipelineLoaded
    \/ EmbedReject
    \/ PersistRollback
    \/ PersistCommit

\* The sync calls, accepted and rejected, with issues deleted in the remote;
\* every awaited promise settles in the end.
NextLive ==
    \/ \E projectId \in ProjectIds : SyncIndexAccept(projectId)
    \/ Settle
    \/ \E id \in Ids : RemoteDrop(id)
    \/ SyncIndexThrow
    \/ SyncToolBusy

SpecLive == Init /\ [][NextLive]_vars /\ WF_vars(Settle)

\* The syncs of a server started on the store of an earlier run.
SpecRetry == InitIndexed /\ [][NextLive]_vars

\* The exported functions called directly, on inputs of every shape.
NextPure ==
    \/ \E texts \in TextLists : EmbedBatchCall(texts)
    \/ EmbedBatchPipe
    \/ \E issue \in FullIssues : BuildChunksCall(issue)
    \/ \E n \in 0..(2 * DistScale) : SimilarityCall(n)

SpecPure == Init /\ [][NextPure]_vars

----------------------------------------------------------------------------
(* Properties                                                              *)

InFlight == sync.pc # "idle"

\* The sync returned, no getIssue failed and the remote has not changed since
\* the call was accepted.
ReturnedClean ==
    /\ run.outcome = "returned"
    /\ run.failed = {}
    /\ ~run.dirty
    /\ ~run.after

ChunksOf(d, id) == { c \in d.chunks : c.issue_id = id }

ChunkIdsOf(d, id) == { c.id : c \in ChunksOf(d, id) }

NonBlankNotes(issue) ==
    Cardinality({ n \in 1..Len(issue.notes) : ~NoteBlank(issue.notes[n]) })

HeaderIds == { sync.headers[n].id : n \in 1..Len(sync.headers) }

HeaderTs(id) == (CHOOSE h \in Range(sync.headers) : h.id = id).updated_at

\* C1: a syncIndex call made while another is in flight is rejected at once
\* (the direct call throws, the tool answers "already in progress"); it is not
\* queued, it changes neither the store nor the call in flight, and no call is
\* accepted while one is in flight.
C1_SingleFlight ==
    [][ /\ InFlight => nsyncs' = nsyncs
        /\ (lastCall' \in {"threw", "busy"} /\ lastCall' # lastCall)
              => /\ InFlight
                 /\ UNCHANGED <<remote, db, syncing, sync, run, prev, nsyncs>> ]_vars

C1_Witness == InFlight /\ lastCall = "threw" /\ sync.pc = "embed"

\* C2: a sync restricted to one project leaves every stored record of another
\* project in place and does not classify it as deleted.
C2_ScopedSyncKeepsOutOfScope ==
    (run.projectId # 0 /\ run.diffed) =>
        \A id \in DOMAIN run.pre.issues :
            run.pre.issues[id].project_id # run.projectId =>
                /\ id \notin Range(sync.toDelete)
                /\ id \in DOMAIN db.issues

\* C3: an id is an add iff it is in the header list and has no stored row, an
\* update iff it is in the header list and its stored updated_at differs from
\* the header's, a delete iff it is stored and not in the header list; the
\* three sets are pairwise disjoint.
C3_DiffClassification ==
    run.diffed =>
        LET stored == getStoredIssueTimestamps(run.pre)
            adds == Range(sync.toAdd)
            upds == Range(sync.toUpdate)
            dels == Range(sync.toDelete)
        IN  /\ \A id \in Ids :
                 /\ id \in adds <=> (id \in HeaderIds /\ id \notin DOMAIN stored)
                 /\ id \in upds <=> /\ id \in HeaderIds
                                    /\ id \in DOMAIN stored
                                    /\ stored[id] # HeaderTs(id)
                 /\ id \in dels <=> (id \in DOMAIN stored /\ id \notin HeaderIds)
            /\ adds \cup upds \cup dels \subseteq Ids
            /\ adds \cap upds = {}
            /\ adds \cap dels = {}
            /\ upds \cap dels = {}

C3_Witness ==
    /\ run.diffed
    /\ Len(sync.toAdd) > 0
    /\ Len(sync.toUpdate) > 0

\* C4: after an unscoped sync that returned with no getIssue failure, the
\* remote unchanged since the call was accepted, the stored ids are the remote
\* ids and every stored updated_at is the remote one.
C4_StoreAgreesWithRemote ==
    (ReturnedClean /\ run.projectId = 0) =>
        /\ DOMAIN db.issues = DOMAIN remote
        /\ \A id \in DOMAIN remote : db.issues[id].updated_at = remote[id].updated_at

C4_Witness ==
    /\ ReturnedClean
    /\ run.projectId = 0
    /\ run.result.added > 0
    /\ run.result.deleted > 0

\* The second of two syncs of the same scope, both returned, the remote
\* unchanged from the acceptance of the first to the end of the second.
SecondOfTwo ==
    /\ run.outcome = "returned"
    /\ prev.outcome = "returned"
    /\ prev.projectId = run.projectId
    /\ ~prev.dirty /\ ~prev.after /\ ~run.dirty

NoDiffSameCounts ==
    /\ run.result.added = 0
    /\ run.result.updated = 0
    /\ run.result.deleted = 0
    /\ run.result.totalIssues = prev.counts.issues
    /\ run.result.totalChunks = prev.counts.chunks

\* C5 as stated: the second of two syncs in a row with no remote change
\* returns added = updated = deleted = 0 and leaves the record count and the
\* chunk count unchanged.
C5_IdempotentAsStated == SecondOfTwo => NoDiffSameCounts

\* C5 amended: the second of two syncs of the same scope, both returned, the
\* remote unchanged from the acceptance of the first to the end of the second
\* and no getIssue failed in the first, returns added = updated = deleted = 0
\* and leaves the record count and the chunk count unchanged.
C5_Idempotent == (SecondOfTwo /\ ~prev.failed) => NoDiffSameCounts

C5_Witness == SecondOfTwo /\ ~prev.failed /\ prev.counts.chunks > 1

\* C6: an id added by a sync has, after the sync, one record row and
\* 1 + (its non-blank notes) chunk rows, each with a vector row.
C6_AddCompleteness ==
    ReturnedClean =>
        \A id \in Range(sync.toAdd) :
            /\ id \in DOMAIN db.issues
            /\ Cardinality(ChunksOf(db, id)) = 1 + NonBlankNotes(remote[id])
            /\ \A c \in ChunksOf(db, id) : \E v \in db.vec_chunks : v.chunk_id = c.id

\* C7 as stated: after a sync, the chunk ids of every record classified as
\* update are disjoint from the chunk ids it had before the sync.
C7_UpdateReplacesAsStated ==
    run.outcome = "returned" =>
        \A id \in Range(sync.toUpdate) :
            ChunkIdsOf(db, id) \cap ChunkIdsOf(run.pre, id) = {}

\* C7 amended: after a sync that returned, the chunk ids of every record
\* classified as update whose full record was fetched in that sync are disjoint
\* from the chunk ids it had before the sync, and no vector row of an old chunk
\* row is left.
C7_UpdateReplaces ==
    run.outcome = "returned" =>
        \A id \in Range(sync.toUpdate) \cap run.fetched :
            /\ ChunkIdsOf(db, id) \cap ChunkIdsOf(run.pre, id) = {}
            /\ \A v \in db.vec_chunks : v.chunk_id \notin ChunkIdsOf(run.pre, id)

C7_Witness ==
    /\ run.outcome = "returned"
    /\ \E id \in Range(sync.toUpdate) \cap run.fetched :
          /\ ChunkIdsOf(run.pre, id) # {}
          /\ ChunkIdsOf(db, id) # {}

\* C8: once a sync has classified a stored id as deleted, its record row, its
\* chunk rows and every vector row of a chunk that belonged to it are gone.
C8_DeleteCompleteness ==
    run.diffed =>
        \A id \in Range(sync.toDelete) :
            /\ id \notin DOMAIN db.issues
            /\ ChunksOf(db, id) = {}
            /\ \A v \in db.vec_chunks : <<v.chunk_id, id>> \notin db.log

\* C9: the chunk ids of table chunks are the chunk ids of table vec_chunks.
C9_ChunkVectorBijection ==
    { c.id : c \in db.chunks } = { v.chunk_id : v \in db.vec_chunks }

\* C10: at every suspension point of a sync in flight (the states a search or
\* a sync_status handler can run in), no stored record that had chunks when the
\* sync was accepted is seen with its chunks purged and not yet rebuilt.
C10_NoPurgedRecordVisible ==
    InFlight =>
        \A id \in DOMAIN db.issues :
            ChunkIdsOf(run.pre, id) # {} => ChunkIdsOf(db, id) # {}

VectorsOf(d, id) == { v \in d.vec_chunks : <<v.chunk_id, id>> \in d.log }

\* The rows the store holds for record id: the record row, the chunk rows and
\* the vector rows of chunks inserted for it.
RowsOf(d, id) ==
    [ issue   |-> IF id \in DOMAIN d.issues THEN <<d.issues[id]>> ELSE <<>>,
      chunks  |-> ChunksOf(d, id),
      vectors |-> VectorsOf(d, id) ]

\* C11: when insertTransaction() of a batch throws, syncIndex throws; the
\* store holds no record, chunk or vector row that the failed batch wrote (the
\* record rows, the chunk id counter are as after the latest commit and no
\* chunk or vector row is new), and the rows of every record outside the failed
\* batch are as the latest commit left them.
C11_PersistFailureRollsBack ==
    run.cause = "persist" =>
        /\ run.outcome = "threw"
        /\ db.issues = run.committed.issues
        /\ db.seq = run.committed.seq
        /\ db.chunks \subseteq run.committed.chunks
        /\ db.vec_chunks \subseteq run.committed.vec_chunks
        /\ \A id \in Ids \ run.batch : RowsOf(db, id) = RowsOf(run.committed, id)

C11_Witness ==
    /\ run.cause = "persist"
    /\ run.commits > 0
    /\ run.committed.chunks # run.pre.chunks
    /\ run.batch # {}

\* C12: a getIssue failure does not end the sync, which stays in flight and
\* goes on with the next id or with the embedding of the batch; when the sync
\* returns, every id to process was either fetched or failed, and every fetched
\* id has its record row and a chunk row with its vector row in the store.
C12_FetchFailureSkipped ==
    [][ /\ (run.outcome = "running" /\ run'.failed # run.failed) =>
              /\ run'.outcome = "running"
              /\ syncing'
              /\ sync'.pc \in {"fetch", "load", "embed"}
        /\ run'.outcome = "returned" =>
              \A id \in Range(ToProcess(sync')) :
                  /\ id \in run'.fetched \cup run'.failed
                  /\ id \in run'.fetched =>
                        /\ id \in DOMAIN db'.issues
                        /\ \E c \in ChunksOf(db', id) :
                              \E v \in db'.vec_chunks : v.chunk_id = c.id ]_vars

\* The first id of a batch of two failed, the second was fetched and the sync returned.
C12_Witness ==
    /\ run.outcome = "returned"
    /\ batchSize > 1
    /\ Len(ToProcess(sync)) = 2
    /\ run.failed = {ToProcess(sync)[1]}
    /\ run.fetched = {ToProcess(sync)[2]}

\* C13: the added and updated numbers a sync returns, and stores as
\* last_sync_result, count the ids classified as add or update whose getIssue
\* did not fail.
C13_FailedNotCounted ==
    run.outcome = "returned" =>
        LET added == Cardinality(Range(sync.toAdd) \ run.failed)
            updated == Cardinality(Range(sync.toUpdate) \ run.failed)
        IN  /\ run.result.added = added
            /\ run.result.updated = updated
            /\ getMeta(db, "last_sync_result")[1].added = added
            /\ getMeta(db, "last_sync_result")[1].updated = updated

\* C14: last_sync and last_sync_result are those of the current sync once it
\* has returned, and also once it has thrown after a batch that wrote chunks
\* was committed.
C14_MetadataOnAbort ==
    (\/ run.outcome = "returned"
     \/ run.outcome = "threw" /\ run.commits > 0 /\ run.committed.seq > run.pre.seq) =>
        /\ getMeta(db, "last_sync") = <<nsyncs>>
        /\ getMeta(db, "last_sync_result") # <<>>

\* C17: in a sync during which the remote does not change, every stored
\* record whose remote updated_at equals its stored updated_at keeps its record
\* row, its chunk rows and its vector rows as they were when the sync was
\* accepted.
C17_UnchangedUntouched ==
    (run.diffed /\ ~run.dirty /\ ~run.after) =>
        \A id \in DOMAIN run.pre.issues \cap DOMAIN remote :
            remote[id].updated_at = run.pre.issues[id].updated_at =>
                RowsOf(db, id) = RowsOf(run.pre, id)

\* The step in which store.search ran and the search tool replied with rows.
SearchReplied == searchTool.pc = "infer" /\ searchTool'.out \in {"results", "noresults"}

\* C15: the rows store.search returns for a query vector and a limit k are at
\* most k, each is a row of chunks joined with its row of vec_chunks and its
\* distance to the query, no chunk is returned twice, the distances are
\* non-decreasing, and no chunk with a vector that is left out is strictly
\* closer to the query than a returned one.
C15_SearchNearest ==
    [][ SearchReplied =>
          LET rows == searchTool'.results
              q == Embed(searchTool.query)
              returned == { rows[n].chunk_id : n \in 1..Len(rows) }
          IN  /\ Len(rows) <= searchTool.limit
              /\ Cardinality(returned) = Len(rows)
              /\ \A n \in 1..Len(rows) :
                    /\ \E c \in db.chunks :
                          /\ c.id = rows[n].chunk_id
                          /\ c.issue_id = rows[n].issue_id
                          /\ c.text = rows[n].text
                    /\ \E v \in db.vec_chunks :
                          /\ v.chunk_id = rows[n].chunk_id
                          /\ Distance(q, v.embedding) = rows[n].distance
              /\ \A n \in 1..(Len(rows) - 1) : rows[n].distance <= rows[n + 1].distance
              /\ \A v \in db.vec_chunks :
                    (HasChunk(db, v) /\ v.chunk_id \notin returned) =>
                        \A n \in 1..Len(rows) : Distance(q, v.embedding) >= rows[n].distance ]_vars

\* One row returned for k = 1 while the store holds a chunk farther away.
C15_Witness ==
    /\ searchTool.pc = "idle"
    /\ searchTool.out = "results"
    /\ searchTool.limit = 1
    /\ \E v \in db.vec_chunks :
          /\ HasChunk(db, v)
          /\ Distance(Embed(searchTool.query), v.embedding) > searchTool.results[1].distance

\* C16: every row a search returns is a chunk of a record that has its row in
\* the store, and none is a chunk of a record the current or latest sync has
\* deleted.
C16_NoDeletedRecordReturned ==
    [][ SearchReplied =>
          \A n \in 1..Len(searchTool'.results) :
              /\ searchTool'.results[n].issue_id \in DOMAIN db.issues
              /\ run.diffed => searchTool'.results[n].issue_id \notin Range(sync.toDelete) ]_vars

\* A search returned rows after an unscoped sync had deleted a record the
\* remote no longer holds.
C16_Witness ==
    /\ searchTool.out = "results"
    /\ run.projectId = 0
    /\ \E id \in searchTool.deleted : id \notin DOMAIN remote

\* The step in which the search tool is called.
SearchCalled ==
    /\ searchTool.pc = "idle"
    /\ searchTool' # searchTool
    /\ ~(searchTool'.pc = "idle" /\ searchTool'.out = "none")

\* C18: a search called while the store holds zero chunks replies "empty" in
\* the same step, without awaiting embed and without loading the model; the
\* reply is not the error reply, and a search called over a store with chunks
\* never replies "empty" (it replies "results", "noresults" or "error").
C18_EmptyIndexOutcome ==
    [][ /\ (SearchCalled /\ getCounts(db).chunks = 0) =>
              /\ searchTool'.out = "empty"
              /\ searchTool'.pc = "idle"
              /\ pipeline' = pipeline
        /\ (SearchCalled /\ getCounts(db).chunks # 0) =>
              /\ searchTool'.pc \in {"load", "infer"}
              /\ searchTool'.out = "none"
        /\ (searchTool'.out = "empty" /\ searchTool.out # "empty") =>
              (SearchCalled /\ getCounts(db).chunks = 0) ]_vars

\* The reply "empty" over a store that held chunks and holds none any more.
C18_Witness ==
    /\ searchTool.out = "empty"
    /\ db.seq > 0
    /\ getCounts(db).chunks = 0

\* The diff counts a returned sync stores as last_sync_result.
DiffCounts(r) == [added |-> r.added, updated |-> r.updated, deleted |-> r.deleted]

\* C19: a sync_status reply has syncInProgress true exactly when a sync is in
\* flight; lastSync and lastSyncResult are absent while no sync was accepted,
\* are those of the current sync once it has returned, and while the current
\* sync is in flight or after it threw they are what they were when it was
\* accepted.
C19_StatusReport ==
    [][ status' # status =>
          LET s == status'[1]
          IN  /\ s.syncInProgress = InFlight
              /\ run.outcome = "none" =>
                    /\ s.lastSync = <<>>
                    /\ s.lastSyncResult = <<>>
              /\ run.outcome = "returned" =>
                    /\ s.lastSync = <<nsyncs>>
                    /\ s.lastSyncResult = <<DiffCounts(run.result)>>
              /\ run.outcome \in {"running", "threw"} =>
                    /\ s.lastSync = getMeta(run.pre, "last_sync")
                    /\ s.lastSyncResult = getMeta(run.pre, "last_sync_result") ]_vars

\* A reply made during the second sync, after the first one recorded its metadata.
C19_Witness ==
    /\ status # <<>>
    /\ status[1].syncInProgress
    /\ status[1].lastSync = <<1>>
    /\ nsyncs = 2

\* C20: createPipeline resolves at most once in a process.
C20_LoadedOnce == pipeline.loads <= 1

\* C21: embedBatch returns one vector per text, in the order of the texts
\* (the n-th result is the embedding of the n-th text), for every length of
\* the input below, at, above and between the multiples of the sub-batch
\* size of 32, and no vector for no text; the loop run one await at a time
\* and the function applied at once agree.
C21_OneVectorPerText ==
    (call.fn = "embedBatch" /\ call.pc = "done") =>
        /\ Len(call.results) = Len(call.arg)
        /\ \A n \in 1..Len(call.arg) : call.results[n] = Embed(call.arg[n])
        /\ embedBatch(call.arg) = call.results

C21_Witness ==
    /\ call.fn = "embedBatch"
    /\ call.pc = "done"
    /\ Len(call.arg) = 2 * SUB_BATCH_SIZE + 1
    /\ call.i = 3 * SUB_BATCH_SIZE
    /\ Len(call.results) = Len(call.arg)

\* The notes of an issue that have a character other than whitespace.
NotesWithText(issue) ==
    SelectSeq(issue.notes, LAMBDA note : \E k \in 1..Len(note.text) : note.text[k] # " ")

\* C22: buildChunks turns one full issue into a list that starts with the
\* one issue chunk, whose note_id is absent (0), followed by one note chunk
\* for each note whose text is not blank, in the order of the notes and with
\* the note's id; a note with an empty or whitespace-only text gives no
\* chunk; the same issue gives the same list again.
C22_ChunkList ==
    call.fn = "buildChunks" =>
        LET issue  == call.arg
            chunks == call.results
            kept   == NotesWithText(issue)
        IN  /\ Len(chunks) = 1 + Len(kept)
            /\ chunks[1].chunk_type = "issue"
            /\ chunks[1].note_id = 0
            /\ \A n \in 1..Len(kept) :
                  /\ chunks[n + 1].chunk_type = "note"
                  /\ chunks[n + 1].note_id = kept[n].id
                  /\ chunks[n + 1].text[4] = kept[n].text
            /\ buildChunks(issue) = chunks

C22_Witness ==
    /\ call.fn = "buildChunks"
    /\ Len(call.arg.notes) = 3
    /\ call.arg.notes[1].text = BlankText
    /\ call.arg.notes[2].text = PaddedText
    /\ call.arg.notes[3].text = SomeText
    /\ Len(call.results) = 3
    /\ call.results[2].note_id = call.arg.notes[2].id

\* C23: deleteIssueChunks and deleteIssue are atomic to the handlers that
\* read the store: in no state a handler can run in has a chunk row lost its
\* vector row, and from the first await after the deletes of a sync on, no
\* id the sync deleted has a record row, a chunk row or a vector of a chunk
\* row left.
C23_DeletesAtomic ==
    /\ \A c \in db.chunks : \E v \in db.vec_chunks : v.chunk_id = c.id
    /\ (InFlight /\ run.diffed) =>
          \A id \in Range(sync.toDelete) :
              /\ id \notin DOMAIN db.issues
              /\ ChunksOf(db, id) = {}

\* A sync in flight has deleted a record that had chunks and vectors.
C23_Witness ==
    /\ InFlight
    /\ run.diffed
    /\ \E id \in Range(sync.toDelete) : \E e \in db.log : e[2] = id
    /\ prev.outcome = "returned"

\* C24: while a sync is in flight (it is then suspended at an await: the
\* header fetch, a getIssue, the model load or embedBatch) a search can be
\* called and a pending search can reply, in every state the sync moves on
\* from; the reply is made from the rows the store holds at the step of the
\* reply, it is not the error reply, and the step changes neither the latch,
\* the sync nor the store.
C24_SearchDuringSync ==
    [][ InFlight =>
          /\ (sync' # sync /\ searchTool.pc = "idle") =>
                ENABLED (\E query \in Queries, limit \in Limits : SearchCall(query, limit))
          /\ (sync' # sync /\ searchTool.pc = "infer") => ENABLED SearchReply
          /\ SearchReplied =>
                /\ searchTool'.results \in search(db, Embed(searchTool.query), searchTool.limit)
                /\ syncing' = syncing
                /\ sync' = sync
                /\ db' = db ]_vars

\* A search has replied, while the sync is suspended at a getIssue or at
\* embedBatch, with a chunk the sync in flight had committed.
C24_Witness ==
    /\ InFlight
    /\ syncing
    /\ sync.pc \in {"fetch", "embed"}
    /\ searchTool.pc = "idle"
    /\ searchTool.out = "results"
    /\ \E n \in 1..Len(searchTool.results) : searchTool.results[n].chunk_id > run.pre.seq

\* C25: the score of a result at a distance d in [0, 2] is 1 - d/2, taken
\* as a percentage: it lies between 0% and 100%, the figure shown is that
\* percentage to the nearest tenth, and neither the score nor the figure
\* shown at a smaller distance is below the one at d.
C25_SimilarityScore ==
    call.fn = "similarity" =>
        LET n     == call.arg
            x     == call.results[1]
            shown == call.results[2]
        IN  /\ x.den > 0
            /\ x.num * 2 * DistScale = 100 * (2 * DistScale - n) * x.den
            /\ 0 <= x.num /\ x.num <= 100 * x.den
            /\ 0 <= shown /\ shown <= 1000
            /\ 2 * shown * x.den - 20 * x.num <= x.den
            /\ 20 * x.num - 2 * shown * x.den <= x.den
            /\ \A m \in 0..n :
                  /\ similarity(m).num * x.den >= x.num * similarity(m).den
                  /\ toFixed1(similarity(m)) >= shown

C25_Witness ==
    /\ call.fn = "similarity"
    /\ call.arg = DistScale
    /\ call.results[2] = 500

\* Every chunk row refers to a record row that exists and no two chunk rows
\* share an id.
ChunksHaveRecord ==
    /\ \A c \in db.chunks : c.issue_id \in DOMAIN db.issues
    /\ \A c1, c2 \in db.chunks : c1.id = c2.id => c1 = c2

\* C26: in every state of the store, every chunk row refers to a record row
\* that exists and belongs to that one record, and every vector is the
\* vector of a chunk that was inserted for a record that exists: no chunk
\* and no vector outlives or precedes its record.
C26_NothingOutlivesRecord ==
    /\ ChunksHaveRecord
    /\ \A v \in db.vec_chunks :
          \E e \in db.log : e[1] = v.chunk_id /\ e[2] \in DOMAIN db.issues

IssueChunksOf(d, id) == { c \in ChunksOf(d, id) : c.chunk_type = "issue" }

\* C27: once a sync has ended, returned or thrown on the header fetch, on
\* embedBatch or on the persist of a batch, every record of the store has
\* exactly one issue chunk.
C27_OneIssueChunkAtEnd ==
    (sync.pc = "idle" /\ run.outcome \in {"returned", "threw"}) =>
        \A id \in DOMAIN db.issues : Cardinality(IssueChunksOf(db, id)) = 1

\* The persist transaction of a batch commits in this step.
BatchCommitted == sync.pc = "embed" /\ db'.seq > db.seq

\* C28: the persist transaction of a batch calls the record upsert once for
\* each fetched issue of the batch, and every chunk row and vector row the
\* transaction inserted is in the store when it commits: no upsert removed a
\* chunk or a vector inserted earlier in the transaction.
C28_UpsertOncePerIssue ==
    [][ BatchCommitted =>
          /\ \A n \in 1..Len(sync.issues) :
                Cardinality({ j \in 1..Len(sync.allChunks) :
                                Upserts(sync.allChunks)[j] = sync.issues[n].id }) = 1
          /\ \A cid \in (db.seq + 1)..db'.seq :
                /\ \E c \in db'.chunks : c.id = cid
                /\ \E v \in db'.vec_chunks : v.chunk_id = cid ]_vars

\* C29: when the persist transaction of a batch commits, the j-th chunk of
\* the batch (the chunk that got the j-th new chunk id) is stored with the
\* j-th vector of embedBatch on the texts of the batch, and that vector is
\* the embedding of the chunk's own text; this holds as well when a getIssue
\* of the batch had failed and its record was skipped.
C29_VectorOfOwnText ==
    [][ BatchCommitted =>
          LET texts      == [ j \in 1..Len(sync.allChunks) |-> sync.allChunks[j].chunk.text ]
              embeddings == embedBatch(texts)
          IN  \A j \in 1..Len(sync.allChunks) :
                /\ \E v \in db'.vec_chunks :
                      /\ v.chunk_id = db.seq + j
                      /\ v.embedding = embeddings[j]
                      /\ v.embedding = Embed(sync.allChunks[j].chunk.text)
                /\ \A c \in db'.chunks :
                      c.id = db.seq + j => c.text = sync.allChunks[j].chunk.text ]_vars

\* A batch of two ids has committed the two chunks of the one issue that was
\* fetched, the other getIssue having failed.
C29_Witness ==
    /\ batchSize = 2
    /\ nsyncs = 1
    /\ run.outcome = "returned"
    /\ run.failed = {1}
    /\ run.fetched = {2}
    /\ Cardinality(db.vec_chunks) = 2
    /\ \E c \in db.chunks : c.chunk_type = "note"

\* The ids getIssue has settled for in the current sync.
Asked == run.fetched \cup run.failed

\* A getIssue of the sync settles in this step.
FetchSettled == sync.pc = "fetch" /\ sync' # sync

C31_DeletesStayApplied ==
    run.diffed =>
        /\ \A id \in Range(sync.toDelete) :
              /\ id \notin DOMAIN db.issues
              /\ ChunksOf(db, id) = {}
              /\ id \notin DOMAIN run.committed.issues
        /\ Range(sync.toDelete) \cap (Range(sync.toAdd) \cup Range(sync.toUpdate)) = {}

\* A sync that deleted a stored record has thrown on a later batch.
C31_Witness ==
    /\ sync.pc = "idle"
    /\ run.outcome = "threw"
    /\ run.cause \in {"embed", "persist"}
    /\ \E id \in Range(sync.toDelete) : id \in DOMAIN run.pre.issues

\* C32: every accepted syncIndex call ends and releases the latch, whether
\* it returns or throws on the header fetch, on embedBatch or on a persist:
\* a taken latch is always followed by a free one, the latch is free
\* whenever no call is in flight, and a call made then is accepted.
C32_LatchReleased ==
    /\ syncing ~> ~syncing
    /\ [](sync.pc = "idle" => ~isSyncing)
    /\ [][ (sync.pc = "idle" /\ nsyncs' # nsyncs) =>
              (syncing' /\ sync'.pc = "headers" /\ run'.outcome = "running") ]_vars

\* A sync that threw has been followed by an accepted call.
C32_Witness ==
    /\ prev.outcome = "threw"
    /\ nsyncs = 2
    /\ syncing
    /\ sync.pc = "headers"

\* C33: a sync call that is rejected because a sync is in flight changes
\* nothing but its own answer: the latch stays taken and the sync in flight
\* and the store are as they were; after a rejection the latch is taken as
\* long as the sync is in flight, so a further call is rejected as well and
\* none is accepted.
C33_RejectionKeepsLatch ==
    /\ [][ (lastCall' # lastCall /\ lastCall' \in {"threw", "busy"}) =>
              /\ syncing /\ syncing'
              /\ sync' = sync
              /\ run' = run
              /\ db' = db ]_vars
    /\ [](lastCall \in {"threw", "busy"} =>
              /\ InFlight
              /\ isSyncing
              /\ ENABLED SyncIndexThrow
              /\ ~ENABLED (\E projectId \in ProjectIds : SyncIndexAccept(projectId)))

\* A direct call was rejected while the sync in flight awaits a getIssue.
C33_Witness ==
    /\ lastCall = "threw"
    /\ sync.pc = "fetch"
    /\ syncing

\* C34: an id classified as update whose getIssue failed keeps, to the end of
\* the sync and after it, the record row (with its updated_at), the chunk rows
\* and the vector rows the store held for it when the sync was accepted; a
\* step of a sync changes the rows of an update id only when that id was
\* fetched.
C34_FailedUpdateUntouched ==
    /\ [](\A id \in run.failed \cap Range(sync.toUpdate) :
              /\ id \in DOMAIN db.issues
              /\ RowsOf(db, id) = RowsOf(run.pre, id)
              /\ db.issues[id].updated_at = run.pre.issues[id].updated_at)
    /\ [][ \A id \in Range(sync.toUpdate) :
              RowsOf(db', id) # RowsOf(db, id) => id \in run'.fetched ]_vars

\* A sync has returned after the fetch of an update id failed, and the store
\* holds chunks and vectors of that id.
C34_Witness ==
    /\ run.outcome = "returned"
    /\ \E id \in run.failed \cap Range(sync.toUpdate) :
          /\ ChunksOf(db, id) # {}
          /\ VectorsOf(db, id) # {}

\* C35 as stated: a header an accepted sync classified as add or update and
\* did not persist has its id classified as add or update by the next sync
\* when the remote, unchanged during that sync, still holds the id.
C35_RetriedAsStated ==
    (run.diffed /\ ~run.dirty) =>
        \A h \in prev.unpersisted :
            h.id \in DOMAIN remote => h.id \in Range(ToProcess(sync))

\* C35 amended: a header an accepted sync classified as add or update and did
\* not persist (its getIssue failed, its batch aborted or the sync threw
\* before its batch) has its id classified as add or update by the next sync
\* whose header list holds it; and an unscoped sync that follows and returns
\* with no failure, the remote unchanged, leaves every such id stored with the
\* remote's updated_at, and the stored ids are the remote's.
C35_UnpersistedRetried ==
    /\ run.diffed =>
          \A h \in prev.unpersisted :
              h \in Range(sync.headers) => h.id \in Range(ToProcess(sync))
    /\ (ReturnedClean /\ run.projectId = 0) =>
          /\ \A h \in prev.unpersisted :
                h.id \in DOMAIN remote =>
                   /\ h.id \in DOMAIN db.issues
                   /\ db.issues[h.id].updated_at = remote[h.id].updated_at
          /\ DOMAIN db.issues = DOMAIN remote

\* A sync left an add and an update unpersisted; the next sync, unscoped,
\* classified them again and returned with no failure.
C35_Witness ==
    /\ ReturnedClean
    /\ run.projectId = 0
    /\ \E h \in prev.unpersisted : h.id \in Range(sync.toAdd)
    /\ \E h \in prev.unpersisted : h.id \in Range(sync.toUpdate)

\* C36: when the header fetch of a sync rejects, the sync throws in that step
\* and frees the latch; the store is left as it was when the call was accepted:
\* the record, chunk and vector rows, the chunk id counter and the metadata
\* (last_sync, last_sync_result) are the same, and nothing was classified.
C36_HeaderFailureChangesNothing ==
    /\ [][ (sync.pc = "headers" /\ run'.cause = "headers") =>
              /\ run'.outcome = "threw"
              /\ sync'.pc = "idle"
              /\ ~syncing'
              /\ db' = db ]_vars
    /\ [](run.cause = "headers" =>
              /\ run.outcome = "threw"
              /\ ~run.diffed
              /\ ToProcess(sync) = <<>> /\ sync.toDelete = <<>>
              /\ db.issues = run.pre.issues
              /\ db.chunks = run.pre.chunks
              /\ db.vec_chunks = run.pre.vec_chunks
              /\ db.seq = run.pre.seq
              /\ getMeta(db, "last_sync") = getMeta(run.pre, "last_sync")
              /\ getMeta(db, "last_sync_result") = getMeta(run.pre, "last_sync_result"))

\* The header fetch of a sync failed over a store that holds the metadata of
\* an earlier sync and a record the remote has deleted since.
C36_Witness ==
    /\ run.cause = "headers"
    /\ getMeta(db, "last_sync") # <<>>
    /\ \E id \in DOMAIN db.issues :
          /\ id \notin DOMAIN remote
          /\ ChunksOf(db, id) # {}

====
